---- MODULE Spec2Model ----
(***************************************************************************)
(* Verification model of the parallel video translation service:          *)
(*   - mpi/mpi_service.py: chunk planner, unit executor, scatter/gather,   *)
(*     aggregation and the result hand-off of the distributed run;        *)
(*   - translate-backend/app/services/MPITranslationService.py: the       *)
(*     wrapper that launches the distributed run;                         *)
(*   - translate-backend/app/utils/job_manager.py: the job store.         *)
(*                                                                         *)
(* Times are Python floats in the source.  They are modelled as binary    *)
(* floating-point numbers with a significand of FloatBits bits, rounded   *)
(* to nearest, ties to even, exactly as IEEE-754 does with 53 bits.  A    *)
(* value is held as an integer count of ticks, 2^TickBits ticks to the    *)
(* second.                                                                *)
(***************************************************************************)
EXTENDS Integers, Sequences, FiniteSets, TLC

VARIABLES
    \* ---- chunk planner call (split_video_into_chunks)
    pDuration,      \* duration of the clip read from the video file, in ticks
    pNum,           \* num_chunks argument
    pPc,            \* "call" before the function ran, "done" after
    pOut,           \* what the call produced: [fault, chunks]
    \* ---- job manager (JobManager)
    use_redis,      \* self._use_redis, decided once in __init__
    redis_flaky,    \* whether a Redis command may raise after start-up
    redis,          \* the Redis keys job:<id>, each holding a serialized record
    jobs,           \* the dict self._jobs (empty while the attribute is unset)
    now,            \* datetime.utcnow(): a clock that a call finds advanced
    issued,         \* the identifiers uuid4 has handed out
    jmOp,           \* the last JobManager call: [op, job_id, ret, raised]:
                    \* what it returned and whether it caught an exception
    calls,          \* how many JobManager calls the clients have made
    \* ---- one call of process_video_parallel and its distributed run
    mpi_enabled,    \* self.mpi_enabled, decided once in __init__
    rDuration,      \* duration of the asset, in ticks
    num_workers,    \* the num_workers argument: the size of the MPI world
    wPc,            \* the wrapper: "idle", "running" (inside subprocess.run),
                    \* "returned" or "raised"
    wRet,           \* what process_video_parallel returned
    wWhy,           \* the branch it returned from (the message it printed)
    elapsed,        \* seconds since mpirun was launched
    exitcode,       \* mpirun: "running", 0, 1 or "killed"
    ranks,          \* rank -> [pc, result]: each MPI process of the run
    chunks,         \* the chunk list the master planned and scattered
    aggregate,      \* what parallel_process_video returned on the master
    result_file,    \* /mpi/workspace/mpi_result.json
    sRet,           \* what should_use_mpi returned, once called
    cPc,            \* the submitter of the job: "new", "submitted",
                    \* "calling", "done"
    cJob,           \* the job_id the submitter holds
    \* --- the master's aggregation, called on a gathered list
    arrived,        \* the unit results in the order they were handed over
    all_results,    \* the list object the master holds (sorted in place)
    mCalls,         \* how many times the aggregation ran on it
    merged,         \* what the last aggregation returned
    \* --- process_chunk, step by step, for runs sharing /mpi/workspace
    unit,           \* run -> the process_chunk call of one of its ranks
    workspace,      \* the audio files in /mpi/workspace: [path, by]
    \* --- RedisCache
    cache_client,   \* self.client is a connection (TRUE) or None (FALSE)
    cache_store,    \* the cache's Redis keys: key -> [data, ttl]
    cacheOp,        \* the last call: what it was, what it returned
    cacheCalls,     \* calls made so far
    \* --- process_video_parallel calls sharing /mpi/workspace
    call,           \* caller -> its process_video_parallel call
    ws_videos,      \* the videos in /mpi/workspace: file name -> content
    ws_result,      \* /mpi/workspace/mpi_result.json
    \* --- update_job calls in flight at the same time
    upd             \* updater -> its update_job call

planVars == <<pDuration, pNum, pPc, pOut>>

jmVars == <<use_redis, redis_flaky, redis, jobs, now, issued, jmOp, calls>>

mergeVars == <<arrived, all_results, mCalls, merged>>

unitVars == <<unit, workspace>>

cacheVars == <<cache_client, cache_store, cacheOp, cacheCalls>>

sharedVars == <<call, ws_videos, ws_result>>

raceVars == <<upd>>

runVars == <<mpi_enabled, rDuration, num_workers, wPc, wRet, wWhy, elapsed,
             exitcode, ranks, chunks, aggregate, result_file, sRet, cPc, cJob>>

vars == <<pDuration, pNum, pPc, pOut,
          use_redis, redis_flaky, redis, jobs, now, issued, jmOp, calls,
          mpi_enabled, rDuration, num_workers, wPc, wRet, wWhy, elapsed,
          exitcode, ranks, chunks, aggregate, result_file, sRet, cPc, cJob,
          arrived, all_results, mCalls, merged,
          unit, workspace,
          cache_client, cache_store, cacheOp, cacheCalls,
          call, ws_videos, ws_result, upd>>

\* ------------------------------------------------------------------ bounds
FloatBits == 6          \* significand width of the modelled floats
TickBits == 3           \* fractional bits of a second held by one tick
MaxDurExp == 1          \* clip durations span binades 0..MaxDurExp
MaxChunks == 4          \* largest num_chunks tried
MaxCalls == 3           \* JobManager calls made by the clients of one run
MaxWorkers == 3         \* largest num_workers tried
TickSeconds == 300      \* granularity of the wall clock of a run

\* ------------------------------------------------------ program constants
PhaseTimeout == 600     \* subprocess.run(..., timeout=600)
MpiThreshold == 60      \* should_use_mpi: duration > 60

None == "None"

\* ------------------------------------------------------- float arithmetic
RECURSIVE Pow2(_)
Pow2(k) == IF k = 0 THEN 1 ELSE 2 * Pow2(k - 1)

Abs(x) == IF x < 0 THEN -x ELSE x

Sign(x) == IF x < 0 THEN -1 ELSE 1

\* The integer nearest to num/den (num >= 0, den > 0), ties to the even one.
RoundHalfEven(num, den) ==
    LET q == num \div den
        r == num % den
    IN  IF 2 * r < den THEN q
        ELSE IF 2 * r > den THEN q + 1
        ELSE IF q % 2 = 0 THEN q ELSE q + 1

\* The binary exponent at which num/den has at most FloatBits significant bits.
RECURSIVE ExpOf(_, _, _)
ExpOf(num, den, k) ==
    IF num < den * Pow2(FloatBits + k) THEN k ELSE ExpOf(num, den, k + 1)

\* num/den (num >= 0, den > 0) rounded to a float.
RoundToFloat(num, den) ==
    LET k == ExpOf(num, den, 0)
    IN  RoundHalfEven(num, den * Pow2(k)) * Pow2(k)

\* Python's a / b on floats (b # 0).
FDiv(a, b) == Sign(a) * Sign(b) * RoundToFloat(Abs(a), Abs(b))

\* Python's i * x with i an int and x a float.
FMul(i, x) == Sign(i) * Sign(x) * RoundToFloat(Abs(i * x), 1)

\* Python's min on two floats.
Min(a, b) == IF a <= b THEN a ELSE b

\* One second, in ticks.
Second == Pow2(TickBits)

\* The floats with a full significand in the binades the model draws clip
\* durations from: 2^(FloatBits-1) s up to 2^(FloatBits+MaxDurExp) s.
PositiveDurations ==
    { m * Pow2(TickBits + e) :
        m \in Pow2(FloatBits - 1) .. (Pow2(FloatBits) - 1), e \in 0 .. MaxDurExp }

\* ---------------------------------------------------------- chunk planner
\* The end of chunk i as the planner computes it.
ChunkEndMissingClamp(i, chunk_duration, duration) ==
    FMul(i + 1, chunk_duration)

ChunkEnd(i, chunk_duration, duration) ==
    Min(FMul(i + 1, chunk_duration), duration)

Chunk(i, chunk_duration, duration) ==
    [chunk_id   |-> i,
     start_time |-> FMul(i, chunk_duration),
     end_time   |-> ChunkEnd(i, chunk_duration, duration)]

\* for i in range(num_chunks): range of a negative count is empty.
ChunkList(duration, num_chunks) ==
    LET chunk_duration == FDiv(duration, num_chunks)
    IN  [k \in 1 .. (IF num_chunks > 0 THEN num_chunks ELSE 0) |->
            Chunk(k - 1, chunk_duration, duration)]

\* split_video_into_chunks: the fault it raises, if any, and the list returned.
split_video_into_chunks(duration, num_chunks) ==
    IF num_chunks = 0
    THEN [fault |-> "ZeroDivisionError", chunks |-> None]
    ELSE [fault |-> None, chunks |-> ChunkList(duration, num_chunks)]

\* The planner as the other specifications leave it: not called.
PlanIdle ==
    /\ pDuration = 0
    /\ pNum = 0
    /\ pPc = "idle"
    /\ pOut = None

\* The aggregation as the other specifications leave it: not called on its own.
MergeIdle ==
    /\ arrived = << >>
    /\ all_results = << >>
    /\ mCalls = 0
    /\ merged = [none |-> TRUE]

\* The step-by-step unit executor as the other specifications leave it.
UnitIdle ==
    /\ unit = << >>
    /\ workspace = {}

\* The cache as the other specifications leave it: not constructed.
CacheIdle ==
    /\ cache_client = FALSE
    /\ cache_store = << >>
    /\ cacheOp = [op |-> "init"]
    /\ cacheCalls = 0

\* The shared workspace and concurrent updates as the other specifications
\* leave them: no call in flight.
SharedIdle ==
    /\ call = << >>
    /\ ws_videos = << >>
    /\ ws_result = [none |-> TRUE]

RaceIdle == upd = << >>

\* The wrapper and the distributed run as the other specifications leave
\* them: never called.
RunIdle ==
    /\ mpi_enabled = FALSE
    /\ rDuration = 0
    /\ num_workers = 0
    /\ wPc = "idle"
    /\ wRet = [none |-> TRUE]
    /\ wWhy = None
    /\ elapsed = 0
    /\ exitcode = "running"
    /\ ranks = << >>
    /\ chunks = << >>
    /\ aggregate = [none |-> TRUE]
    /\ result_file = [none |-> TRUE]
    /\ sRet = [called |-> FALSE]
    /\ cPc = "new"
    /\ cJob = None

\* ------------------------------------------------------------ job manager
JobIds == {"j1", "j2"}

\* Python's None where a dict is expected: no job record, no result.
NoneDict == [none |-> TRUE]

NoJob == NoneDict

NoResult == NoneDict

\* An empty dict {}, and a result dict with content.
EmptyDict == [empty |-> TRUE]

R1 == [transcriptions |-> << >>, language |-> "en", total_segments |-> 0,
       workers_used |-> 1]

\* hasattr(self, '_jobs'): __init__ sets the dict only in the fallback branch.
HasJobsAttr == ~use_redis

\* dict.get(job_id)
DictGet(dict, job_id) == IF job_id \in DOMAIN dict THEN dict[job_id] ELSE NoJob

\* dict[job_id] = job
DictPut(dict, job_id, job) ==
    [k \in DOMAIN dict \cup {job_id} |-> IF k = job_id THEN job ELSE dict[k]]

\* del dict[job_id]
DictDel(dict, job_id) == [k \in DOMAIN dict \ {job_id} |-> dict[k]]

PENDING == "pending"
PROCESSING == "processing"
COMPLETED == "completed"
FAILED == "failed"

JobStatus == {PENDING, PROCESSING, COMPLETED, FAILED}

\* Python's None for the int argument progress.
NoProgress == -1

\* Argument values update_job is called with ("" is the empty string).
StatusArgs == JobStatus \cup {None}
ProgressArgs == {NoProgress, 0, 50}
MessageArgs == {None, "", "m1"}
ResultArgs == {NoResult, EmptyDict, R1}
ErrorArgs == {None, "", "e1"}

\* `if x:` on a str or None.
Truthy(x) == x \notin {None, ""}

\* `if x:` on a dict or None.
TruthyDict(x) == x \notin {NoneDict, EmptyDict}

\* json.dumps / json.loads of a job record: the stored value is text, not a dict.
json_dumps(job) == [json |-> job]

json_loads(data) == data.json

\* self.job_ttl = 3600 * 24 (seconds)
job_ttl == 3600 * 24

\* client.setex(key, ttl, data): the key lives for ttl seconds from now.
Setex(store, key, ttl, data) ==
    DictPut(store, key, [data |-> data, expires |-> now + ttl])

\* Redis holds the key and it has not expired.
RedisHas(key) == key \in DOMAIN redis /\ now < redis[key].expires

\* get_job: the record returned; getRaises says whether client.get raised.
get_job_value(job_id, getRaises) ==
    IF use_redis
    THEN IF getRaises
         THEN (IF HasJobsAttr THEN DictGet(jobs, job_id) ELSE NoJob)
         ELSE (IF RedisHas(job_id) THEN json_loads(redis[job_id].data) ELSE NoJob)
    ELSE DictGet(jobs, job_id)

\* A record created as already being processed.
NewJobProcessing(job_id, video_filename, target_language) ==
    [job_id          |-> job_id,
     status          |-> PROCESSING,
     video_filename  |-> video_filename,
     target_language |-> target_language,
     created_at      |-> now,
     updated_at      |-> now,
     progress        |-> 0,
     message         |-> "Job created, waiting to start...",
     result          |-> NoResult,
     error           |-> None]

\* The record create_job builds.
NewJob(job_id, video_filename, target_language) ==
    [job_id          |-> job_id,
     status          |-> PENDING,
     video_filename  |-> video_filename,
     target_language |-> target_language,
     created_at      |-> now,
     updated_at      |-> now,
     progress        |-> 0,
     message         |-> "Job created, waiting to start...",
     result          |-> NoResult,
     error           |-> None]

\* The record rebuilt from the arguments alone: what was not passed is lost.
ApplyUpdateReplace(job, status, progress, message, result, error) ==
    [job EXCEPT
        !.status     = IF Truthy(status) THEN status ELSE @,
        !.progress   = IF progress # NoProgress THEN progress ELSE 0,
        !.message    = message,
        !.result     = result,
        !.error      = error,
        !.updated_at = now]

\* The field assignments of update_job.
ApplyUpdate(job, status, progress, message, result, error) ==
    [job EXCEPT
        !.status     = IF Truthy(status) THEN status ELSE @,
        !.progress   = IF progress # NoProgress THEN progress ELSE @,
        !.message    = IF Truthy(message) THEN message ELSE @,
        !.result     = IF TruthyDict(result) THEN result ELSE @,
        !.error      = IF Truthy(error) THEN error ELSE @,
        !.updated_at = now]

JmInitStore ==
    /\ redis = << >>
    /\ jobs = << >>
    /\ now = 0
    /\ issued = {}
    /\ jmOp = [op |-> "init", job_id |-> None, ret |-> None, raised |-> FALSE]
    /\ calls = 0

\* The job manager as the other specifications leave it: never constructed.
JmIdle ==
    /\ use_redis = FALSE
    /\ redis_flaky = FALSE
    /\ JmInitStore

\* __init__: the ping succeeded (Redis) or failed (in-memory fallback).
JmInit ==
    /\ use_redis \in BOOLEAN
    /\ redis_flaky = use_redis
    /\ JmInitStore
    /\ PlanIdle
    /\ RunIdle
    /\ MergeIdle
    /\ UnitIdle
    /\ CacheIdle
    /\ SharedIdle
    /\ RaceIdle

\* The call returns ret (or leaves with an exception named by ret); raised
\* says whether an exception was caught or left the call.
Returns(op, job_id, ret, raised) ==
    jmOp' = [op |-> op, job_id |-> job_id, ret |-> ret, raised |-> raised]

create_job(job_id, video_filename, target_language, setRaises) ==
    /\ issued' = issued \cup {job_id}
    /\ LET job_data == NewJob(job_id, video_filename, target_language)
       IN  IF use_redis
           THEN IF setRaises
                THEN \* except: self._jobs[job_id] = job_data
                     IF ~HasJobsAttr
                     THEN /\ Returns("create_job", job_id, "AttributeError", TRUE)
                          /\ UNCHANGED <<redis, jobs>>
                     ELSE /\ jobs' = DictPut(jobs, job_id, job_data)
                          /\ Returns("create_job", job_id, job_id, TRUE)
                          /\ UNCHANGED redis
                ELSE /\ redis' = Setex(redis, job_id, job_ttl, json_dumps(job_data))
                     /\ Returns("create_job", job_id, job_id, FALSE)
                     /\ UNCHANGED jobs
           ELSE /\ jobs' = DictPut(jobs, job_id, job_data)
                /\ Returns("create_job", job_id, job_id, FALSE)
                /\ UNCHANGED redis
    /\ UNCHANGED <<use_redis, redis_flaky>>

\* update_job when get_job found nothing: `if not job: return False`.
update_job_upsert(job_id, getRaises) ==
    /\ Returns("update_job", job_id, TRUE, getRaises)
    /\ IF use_redis
       THEN redis' = Setex(redis, job_id, job_ttl, json_dumps(NewJob(job_id, "", None)))
            /\ UNCHANGED jobs
       ELSE jobs' = DictPut(jobs, job_id, NewJob(job_id, "", None))
            /\ UNCHANGED redis

update_job_not_found(job_id, getRaises) ==
    /\ Returns("update_job", job_id, FALSE, getRaises)
    /\ UNCHANGED <<redis, jobs>>

update_job(job_id, status, progress, message, result, error, getRaises, setRaises) ==
    /\ LET job == get_job_value(job_id, getRaises)
       IN  IF job = NoJob
           THEN update_job_not_found(job_id, getRaises)
           ELSE LET new == ApplyUpdate(job, status, progress, message, result, error)
                IN  IF use_redis
                    THEN IF setRaises
                         THEN /\ Returns("update_job", job_id, FALSE, TRUE)
                              /\ UNCHANGED <<redis, jobs>>
                         ELSE /\ redis' = Setex(redis, job_id, job_ttl, json_dumps(new))
                              /\ Returns("update_job", job_id, TRUE, getRaises)
                              /\ UNCHANGED jobs
                    ELSE /\ jobs' = DictPut(jobs, job_id, new)
                         /\ Returns("update_job", job_id, TRUE, FALSE)
                         /\ UNCHANGED redis
    /\ UNCHANGED <<use_redis, redis_flaky, issued>>

get_job(job_id, getRaises) ==
    /\ Returns("get_job", job_id, get_job_value(job_id, getRaises), getRaises)
    /\ UNCHANGED <<use_redis, redis_flaky, redis, jobs, issued>>

delete_job(job_id, delRaises) ==
    /\ IF use_redis
       THEN IF delRaises
            THEN /\ Returns("delete_job", job_id, FALSE, TRUE)
                 /\ UNCHANGED <<redis, jobs>>
            ELSE /\ redis' = DictDel(redis, job_id)
                 /\ Returns("delete_job", job_id, RedisHas(job_id), FALSE)
                 /\ UNCHANGED jobs
       ELSE /\ jobs' = DictDel(jobs, job_id)
            /\ Returns("delete_job", job_id, job_id \in DOMAIN jobs, FALSE)
            /\ UNCHANGED redis
    /\ UNCHANGED <<use_redis, redis_flaky, issued>>

\* Which Redis command of a call raises, if any.
RedisFaults == IF use_redis /\ redis_flaky THEN {"none", "get", "set"} ELSE {"none"}

\* uuid4 returns an identifier never returned before; which one is immaterial.
FreshId(job_id) == job_id \notin issued

\* One more call by a client; the clock has advanced since the previous one.
Called == calls < MaxCalls /\ calls' = calls + 1 /\ now' = now + 1

CreateJob ==
    \E j \in JobIds, f \in RedisFaults :
        /\ FreshId(j)
        /\ Called
        /\ create_job(j, "a.mp4", "id", f = "set")
        /\ UNCHANGED <<planVars, runVars, mergeVars, unitVars, cacheVars, sharedVars, raceVars>>

UpdateJob ==
    \E j \in JobIds, st \in StatusArgs, pr \in ProgressArgs, msg \in MessageArgs,
       res \in ResultArgs, err \in ErrorArgs, f \in RedisFaults :
        /\ Called
        /\ update_job(j, st, pr, msg, res, err, f = "get", f = "set")
        /\ UNCHANGED <<planVars, runVars, mergeVars, unitVars, cacheVars, sharedVars, raceVars>>

GetJob ==
    \E j \in JobIds, f \in RedisFaults :
        /\ Called
        /\ get_job(j, f = "get")
        /\ UNCHANGED <<planVars, runVars, mergeVars, unitVars, cacheVars, sharedVars, raceVars>>

DeleteJob ==
    \E j \in JobIds, f \in RedisFaults :
        /\ Called
        /\ delete_job(j, f = "set")
        /\ UNCHANGED <<planVars, runVars, mergeVars, unitVars, cacheVars, sharedVars, raceVars>>

JmNext ==
    \/ CreateJob
    \/ UpdateJob
    \/ GetJob
    \/ DeleteJob

SpecJobs == JmInit /\ [][JmNext]_vars

\* ------------------------------------------------- job manager: claims
\* The record the store holds for job_id (NoJob when it holds none).
Stored(job_id) ==
    IF use_redis
    THEN IF RedisHas(job_id) THEN json_loads(redis[job_id].data) ELSE NoJob
    ELSE DictGet(jobs, job_id)

IsUpdateStep == jmOp'.op = "update_job" /\ calls' = calls + 1

Terminal == {COMPLETED, FAILED}

\* C2 as stated: once a job's status is completed or failed, no later
\* update_job call changes any field of that job.
C2_TerminalNeverChanges ==
    [][\A j \in JobIds :
          (IsUpdateStep /\ Stored(j) # NoJob /\ Stored(j).status \in Terminal)
              => Stored(j)' = Stored(j)]_vars

\* C9 as stated: a successful update_job leaves in each field it was given
\* exactly the value it was given, whatever that value is (progress 0, an
\* empty message, an empty result, an empty error string included), and that
\* is what get_job then returns.
C9_LastWrittenReturned ==
    [][\A j \in JobIds, st \in StatusArgs, pr \in ProgressArgs,
          msg \in MessageArgs, res \in ResultArgs, err \in ErrorArgs :
          (/\ Called
           /\ update_job(j, st, pr, msg, res, err, FALSE, FALSE)
           /\ jmOp'.ret = TRUE)
          => LET got == get_job_value(j, FALSE)'
             IN  /\ st # None => got.status = st
                 /\ pr # NoProgress => got.progress = pr
                 /\ msg # None => got.message = msg
                 /\ res # NoResult => got.result = res
                 /\ err # None => got.error = err]_vars

\* update_job on an identifier the store holds no record for returns false
\* and neither creates nor changes a record.
UnknownJobUntouched ==
    [][\A j \in JobIds :
          (IsUpdateStep /\ jmOp'.job_id = j /\ Stored(j) = NoJob)
              => (jmOp'.ret = FALSE /\ redis' = redis /\ jobs' = jobs)]_vars

UpdateReturnedFalse == jmOp.op = "update_job" /\ jmOp.ret = FALSE

\* C10 as stated, second half: a false return from update_job always means
\* that the job_id has no stored record.
C10_FalseMeansNoRecord ==
    UpdateReturnedFalse => Stored(jmOp.job_id) = NoJob

\* C10 amended: update_job on a job_id with no stored record returns false
\* and neither creates nor changes any record; a false return means that the
\* job_id has no stored record or that a Redis command raised during the call.
C10_FalseMeansNoRecordOrRedisError ==
    /\ UnknownJobUntouched
    /\ [](UpdateReturnedFalse => (Stored(jmOp.job_id) = NoJob \/ jmOp.raised))

\* C10 witness: both cases of a false return have happened at some point:
\* here the one on a stored record, after a Redis command raised.
C10_Witness ==
    /\ UpdateReturnedFalse
    /\ Stored(jmOp.job_id) # NoJob
    /\ jmOp.raised

\* --------------------------------------------- job manager: retention
\* get_all_jobs: the records the store gives (as a set: scan order is not
\* specified); [] when a Redis command raises.
get_all_jobs(cmdRaises) ==
    /\ IF use_redis
       THEN IF cmdRaises
            THEN Returns("get_all_jobs", None, {}, TRUE)
            ELSE Returns("get_all_jobs", None,
                         {json_loads(redis[k].data) : k \in {j \in DOMAIN redis : RedisHas(j)}},
                         FALSE)
       ELSE Returns("get_all_jobs", None, {jobs[k] : k \in DOMAIN jobs}, FALSE)
    /\ UNCHANGED <<use_redis, redis_flaky, redis, jobs, issued>>

GetAllJobs ==
    \E f \in RedisFaults :
        /\ Called
        /\ get_all_jobs(f = "get")
        /\ UNCHANGED <<planVars, runVars, mergeVars, unitVars, cacheVars, sharedVars, raceVars>>

\* update_job(job_id, progress=50)
UpdateProgress ==
    \E j \in JobIds, f \in RedisFaults :
        /\ Called
        /\ update_job(j, None, 50, None, NoResult, None, f = "get", f = "set")
        /\ UNCHANGED <<planVars, runVars, mergeVars, unitVars, cacheVars, sharedVars, raceVars>>

\* Twelve hours go by without a call (at most four times).
HalfDayPasses ==
    /\ now < 2 * job_ttl
    /\ now' = now + (job_ttl \div 2)
    /\ UNCHANGED <<use_redis, redis_flaky, redis, jobs, issued, jmOp, calls>>
    /\ UNCHANGED <<planVars, runVars, mergeVars, unitVars, cacheVars, sharedVars, raceVars>>

TtlNext ==
    \/ CreateJob
    \/ UpdateProgress
    \/ GetJob
    \/ GetAllJobs
    \/ HalfDayPasses

SpecJobsTtl == JmInit /\ [][TtlNext]_vars

\* written less than 24 h before the time t
Fresh(job, t) == t < job.updated_at + job_ttl

\* C18 as stated: a record that has not been written for 24 h is no longer
\* returned by get_job or get_all_jobs, whichever backing store is used (create
\* and update restart the 24 h, reads do not).
C18_ExpiresAfterTtl ==
    /\ [](\A j \in JobIds : Stored(j) # NoJob => Fresh(Stored(j), now))
    /\ [][ /\ (calls' = calls + 1 /\ jmOp'.op = "get_job" /\ jmOp'.ret # NoJob)
               => Fresh(jmOp'.ret, now)
           /\ (calls' = calls + 1 /\ jmOp'.op = "get_all_jobs")
               => \A job \in jmOp'.ret : Fresh(job, now) ]_vars

IsCreateReturn ==
    /\ calls' = calls + 1
    /\ jmOp'.op = "create_job"
    /\ jmOp'.ret = jmOp'.job_id

\* The record the store holds for job_id after the step.
StoredAfter(job_id) ==
    IF use_redis
    THEN IF job_id \in DOMAIN redis' /\ now' < redis'[job_id].expires
         THEN json_loads(redis'[job_id].data)
         ELSE NoJob
    ELSE DictGet(jobs', job_id)

\* C19: create_job returns an identifier different from that of every job
\* created before, and the new record has status pending, progress 0, result
\* null and error null; creating a job changes no existing job record.
C19_CreateFreshPending ==
    [][ IsCreateReturn =>
          /\ jmOp'.ret \notin issued
          /\ Stored(jmOp'.ret) = NoJob
          /\ StoredAfter(jmOp'.ret) # NoJob
          /\ StoredAfter(jmOp'.ret).job_id = jmOp'.ret
          /\ StoredAfter(jmOp'.ret).status = PENDING
          /\ StoredAfter(jmOp'.ret).progress = 0
          /\ StoredAfter(jmOp'.ret).result = NoResult
          /\ StoredAfter(jmOp'.ret).error = None
          /\ \A j \in JobIds \ {jmOp'.ret} :
                 /\ DictGet(jobs', j) = DictGet(jobs, j)
                 /\ (j \in DOMAIN redis') = (j \in DOMAIN redis)
                 /\ j \in DOMAIN redis => redis'[j] = redis[j] ]_vars

\* C19 witness: a second job was created next to one that is being processed.
C19_Witness ==
    /\ jmOp.op = "create_job"
    /\ jmOp.ret = jmOp.job_id
    /\ Stored(jmOp.ret) # NoJob
    /\ Stored(jmOp.ret).status = PENDING
    /\ \E j \in JobIds \ {jmOp.ret} :
           Stored(j) # NoJob /\ Stored(j).status = PROCESSING

\* ------------------------------------------- job manager: frame effects
\* Keyword arguments of update_job calls: one field each, or several.
UpdateArgs(status, progress, message, result, error) ==
    [status |-> status, progress |-> progress, message |-> message,
     result |-> result, error |-> error]

FrameArgs ==
    { UpdateArgs(PROCESSING, NoProgress, None, NoResult, None),
      UpdateArgs(None, 50, None, NoResult, None),
      UpdateArgs(None, NoProgress, "m1", NoResult, None),
      UpdateArgs(None, NoProgress, None, R1, None),
      UpdateArgs(None, NoProgress, None, NoResult, "e1"),
      UpdateArgs(COMPLETED, 0, "", R1, None) }

UpdateFields ==
    \E j \in JobIds, a \in FrameArgs, f \in RedisFaults :
        /\ Called
        /\ update_job(j, a.status, a.progress, a.message, a.result, a.error,
                      f = "get", f = "set")
        /\ UNCHANGED <<planVars, runVars, mergeVars, unitVars, cacheVars, sharedVars, raceVars>>

FrameNext ==
    \/ CreateJob
    \/ UpdateFields
    \/ GetJob
    \/ GetAllJobs

SpecJobsFrame == JmInit /\ [][FrameNext]_vars

\* No record other than that of job_id is touched by the step.
OthersUntouched(job_id) ==
    \A j \in JobIds \ {job_id} :
        /\ DictGet(jobs', j) = DictGet(jobs, j)
        /\ (j \in DOMAIN redis') = (j \in DOMAIN redis)
        /\ j \in DOMAIN redis => redis'[j] = redis[j]

\* C22: a successful update_job changes only fields passed to it and
\* updated_at: job_id, created_at and every field not supplied keep their
\* values, and no other job's record is changed; get_job and get_all_jobs
\* change no record at all.
C22_UpdateFrame ==
    [][ /\ \A j \in JobIds, a \in FrameArgs :
              (/\ Called
               /\ update_job(j, a.status, a.progress, a.message, a.result,
                             a.error, FALSE, FALSE)
               /\ jmOp'.ret = TRUE)
              => LET old == Stored(j)
                     new == StoredAfter(j)
                 IN  /\ new # NoJob
                     /\ new.job_id = old.job_id
                     /\ new.created_at = old.created_at
                     /\ new.video_filename = old.video_filename
                     /\ new.target_language = old.target_language
                     /\ a.status = None => new.status = old.status
                     /\ a.progress = NoProgress => new.progress = old.progress
                     /\ a.message = None => new.message = old.message
                     /\ a.result = NoResult => new.result = old.result
                     /\ a.error = None => new.error = old.error
                     /\ OthersUntouched(j)
        /\ (calls' = calls + 1 /\ jmOp'.op \in {"get_job", "get_all_jobs"})
              => (redis' = redis /\ jobs' = jobs) ]_vars

\* C22 witness: an update that passed only a message succeeded on a job that
\* had progress 50, next to another job.
C22_Witness ==
    /\ jmOp.op = "update_job"
    /\ jmOp.ret = TRUE
    /\ Stored(jmOp.job_id) # NoJob
    /\ Stored(jmOp.job_id).message = "m1"
    /\ Stored(jmOp.job_id).progress = 50
    /\ Stored(jmOp.job_id).updated_at > Stored(jmOp.job_id).created_at

\* ------------------------------------------------------- unit executor
\* Python's a + b on floats.
FAdd(a, b) == Sign(a + b) * RoundToFloat(Abs(a + b), 1)

Seg(start, end, text) == [start |-> start, end |-> end, text |-> text]

\* str.strip() on the texts the transcription yields.
Strip(text) ==
    CASE text = " a" -> "a"
      [] text = "b " -> "b"
      [] OTHER -> text

\* What transcribing one chunk can yield: segments in chunk-local time.
Transcripts ==
    { << >>,
      <<Seg(0, Second, " a")>>,
      <<Seg(0, Second, " a"), Seg(Second, 2 * Second, "b ")>> }

\* GoogleTranslator(source='auto', target=target_language).translate(text)
Translate(text, target_language) ==
    CASE text = "a" -> "A"
      [] text = "b" -> "B"
      [] OTHER -> text

\* The except branch of the translation: the segment loses its translation.
TranslationFallbackNone(text) == None

\* The except branch of the translation: translated_text = text.
TranslationFallback(text) == text

\* One entry of transcriptions with the segment left in chunk-local time.
TranscriptionChunkLocal(segment, start_time, target_language, translateRaises) ==
    [start           |-> segment.start,
     end             |-> segment.end,
     text            |-> Strip(segment.text),
     translated_text |-> None]

\* One entry of transcriptions: the segment moved to absolute asset time,
\* translated if a target language is given (translateRaises: translate raised).
Transcription(segment, start_time, target_language, translateRaises) ==
    LET text == Strip(segment.text)
    IN  [start           |-> FAdd(segment.start, start_time),
         end             |-> FAdd(segment.end, start_time),
         text            |-> text,
         translated_text |->
             IF ~Truthy(target_language) THEN None
             ELSE IF translateRaises THEN TranslationFallback(text)
             ELSE Translate(text, target_language)]

\* process_chunk, when extraction and transcription succeed: the unit result.
\* failed holds the positions of the segments whose translation raised.
process_chunk(chunk, segments, target_language, failed) ==
    [chunk_id       |-> chunk.chunk_id,
     transcriptions |-> [k \in 1 .. Len(segments) |->
                            Transcription(segments[k], chunk.start_time,
                                          target_language, k \in failed)],
     language       |-> "en"]

\* ----------------------------------------------------------- aggregation
\* The list left in the order it was handed over.
KeepArrivalOrder(s) == s

\* list.sort(key=chunk_id): stable.
RECURSIVE SortByChunkId(_)
SortByChunkId(s) ==
    IF s = << >> THEN << >>
    ELSE LET rest == SortByChunkId(SubSeq(s, 1, Len(s) - 1))
             x == s[Len(s)]
             k == Cardinality({i \in 1 .. Len(rest) : rest[i].chunk_id <= x.chunk_id})
         IN  SubSeq(rest, 1, k) \o <<x>> \o SubSeq(rest, k + 1, Len(rest))

\* The segments left in the order they were appended.
KeepAppendOrder(s) == s

\* list.sort(key=start): stable.
RECURSIVE SortByStart(_)
SortByStart(s) ==
    IF s = << >> THEN << >>
    ELSE LET rest == SortByStart(SubSeq(s, 1, Len(s) - 1))
             x == s[Len(s)]
             k == Cardinality({i \in 1 .. Len(rest) : rest[i].start <= x.start})
         IN  SubSeq(rest, 1, k) \o <<x>> \o SubSeq(rest, k + 1, Len(rest))

\* all_transcriptions.extend(...) over the results in order.
RECURSIVE Extend(_)
Extend(results) ==
    IF results = << >> THEN << >>
    ELSE results[1].transcriptions \o Extend(Tail(results))

\* The master's part of parallel_process_video after the gather.
Aggregate(gathered, size) ==
    LET sorted == SortByChunkId(gathered)
        all_transcriptions == SortByStart(Extend(sorted))
    IN  [transcriptions |-> all_transcriptions,
         language       |-> IF sorted # << >> THEN sorted[1].language ELSE "unknown",
         total_segments |-> Len(all_transcriptions),
         workers_used   |-> size]

\* ---------------------------------------------------- the distributed run
Ranks == 0 .. (num_workers - 1)

\* comm.gather returns on the master once every rank has contributed.
GatherCompleteOnFirst == \E r \in Ranks : ranks[r].pc = "sent"

GatherComplete == \A r \in Ranks : ranks[r].pc = "sent"

\* The list comm.gather hands the master: the unit results in rank order.
\* (Ranks that contributed nothing are left out; with GatherComplete none is.)
Gathered ==
    LET Upto(n) == {r \in Ranks : r < n /\ ranks[r].pc = "sent"}
        Nth(k) == CHOOSE r \in Ranks :
                      ranks[r].pc = "sent" /\ Cardinality(Upto(r)) = k - 1
    IN  [k \in 1 .. Cardinality({r \in Ranks : ranks[r].pc = "sent"}) |->
            ranks[Nth(k)].result]

RunAlive == wPc = "running" /\ exitcode = "running"

\* The master plans one chunk per rank and scatters them.
MasterScatter ==
    /\ RunAlive
    /\ \A r \in Ranks : ranks[r].pc = "init"
    /\ chunks' = split_video_into_chunks(rDuration, num_workers).chunks
    /\ ranks' = [r \in Ranks |-> [ranks[r] EXCEPT !.pc = "has_chunk"]]
    /\ UNCHANGED <<mpi_enabled, rDuration, num_workers, wPc, wRet, wWhy, elapsed,
                   exitcode, aggregate, result_file, sRet, cPc, cJob>>
    /\ UNCHANGED <<planVars, jmVars, mergeVars, unitVars, cacheVars, sharedVars, raceVars>>

\* A rank runs process_chunk on its chunk and hands the result to the gather
\* (a run started without target language).
ProcessChunk(r) ==
    /\ RunAlive
    /\ ranks[r].pc = "has_chunk"
    /\ \E segments \in Transcripts :
          ranks' = [ranks EXCEPT ![r] =
                       [pc |-> "sent",
                        result |-> process_chunk(chunks[r + 1], segments, None, {})]]
    /\ UNCHANGED <<mpi_enabled, rDuration, num_workers, wPc, wRet, wWhy, elapsed,
                   exitcode, chunks, aggregate, result_file, sRet, cPc, cJob>>
    /\ UNCHANGED <<planVars, jmVars, mergeVars, unitVars, cacheVars, sharedVars, raceVars>>

\* ffmpeg (check=True) or the transcription raises inside process_chunk: the
\* exception leaves parallel_process_video and the rank never reaches the gather.
ProcessChunkRaises(r) ==
    /\ RunAlive
    /\ ranks[r].pc = "has_chunk"
    /\ ranks' = [ranks EXCEPT ![r] = [pc |-> "raised", result |-> NoneDict]]
    /\ UNCHANGED <<mpi_enabled, rDuration, num_workers, wPc, wRet, wWhy, elapsed,
                   exitcode, chunks, aggregate, result_file, sRet, cPc, cJob>>
    /\ UNCHANGED <<planVars, jmVars, mergeVars, unitVars, cacheVars, sharedVars, raceVars>>

\* The gather returned: the master merges, and main() saves the result file.
MasterAggregate ==
    /\ RunAlive
    /\ aggregate = NoResult
    /\ GatherComplete
    /\ aggregate' = Aggregate(Gathered, num_workers)
    /\ result_file' = json_dumps(aggregate')
    /\ ranks' = [r \in Ranks |-> [ranks[r] EXCEPT !.pc = "done"]]
    /\ UNCHANGED <<mpi_enabled, rDuration, num_workers, wPc, wRet, wWhy, elapsed,
                   exitcode, chunks, sRet, cPc, cJob>>
    /\ UNCHANGED <<planVars, jmVars, mergeVars, unitVars, cacheVars, sharedVars, raceVars>>

\* Every rank left main(): mpirun exits with status 0.
RunExits ==
    /\ RunAlive
    /\ \A r \in Ranks : ranks[r].pc = "done"
    /\ exitcode' = "exit0"
    /\ UNCHANGED <<mpi_enabled, rDuration, num_workers, wPc, wRet, wWhy, elapsed,
                   ranks, chunks, aggregate, result_file, sRet, cPc, cJob>>
    /\ UNCHANGED <<planVars, jmVars, mergeVars, unitVars, cacheVars, sharedVars, raceVars>>

\* A rank died of its exception: mpirun may notice and abort the run with a
\* non-zero status.  (If it does not, the others wait in the gather for ever.)
RunAborts ==
    /\ RunAlive
    /\ \E r \in Ranks : ranks[r].pc = "raised"
    /\ exitcode' = "exit1"
    /\ UNCHANGED <<mpi_enabled, rDuration, num_workers, wPc, wRet, wWhy, elapsed,
                   ranks, chunks, aggregate, result_file, sRet, cPc, cJob>>
    /\ UNCHANGED <<planVars, jmVars, mergeVars, unitVars, cacheVars, sharedVars, raceVars>>

\* The workspace is tidied while a run is in progress.
RemoveResultFile ==
    /\ wPc = "running"
    /\ result_file # NoResult
    /\ result_file' = NoResult
    /\ UNCHANGED <<mpi_enabled, rDuration, num_workers, wPc, wRet, wWhy, elapsed,
                   exitcode, ranks, chunks, aggregate, sRet, cPc, cJob>>
    /\ UNCHANGED <<planVars, jmVars, mergeVars, unitVars, cacheVars, sharedVars, raceVars>>

\* Wall-clock time passes while subprocess.run waits.
Tick ==
    /\ RunAlive
    /\ elapsed < PhaseTimeout
    /\ elapsed' = elapsed + TickSeconds
    /\ UNCHANGED <<mpi_enabled, rDuration, num_workers, wPc, wRet, wWhy,
                   exitcode, ranks, chunks, aggregate, result_file, sRet, cPc, cJob>>
    /\ UNCHANGED <<planVars, jmVars, mergeVars, unitVars, cacheVars, sharedVars, raceVars>>

\* ----------------------------------- the wrapper: process_video_parallel
\* The wrapper leaves through a `return`.
Return(ret, why) ==
    /\ wPc' = "returned"
    /\ wRet' = ret
    /\ wWhy' = why

\* The mutant of ReturnNone: the exception leaves process_video_parallel.
Reraise(why) ==
    /\ wPc' = "raised"
    /\ wRet' = NoResult
    /\ wWhy' = why

\* One of the `return None` branches, named by the message it prints.
ReturnNone(why) == Return(NoResult, why)

\* `if not self.mpi_enabled: return None`
ReturnMpiUnavailable ==
    /\ cPc = "calling"
    /\ wPc = "idle"
    /\ ~mpi_enabled
    /\ ReturnNone("MPI not available")
    /\ UNCHANGED <<mpi_enabled, rDuration, num_workers, elapsed, exitcode, ranks,
                   chunks, aggregate, result_file, sRet, cPc, cJob>>
    /\ UNCHANGED <<planVars, jmVars, mergeVars, unitVars, cacheVars, sharedVars, raceVars>>

\* The workspace is prepared and subprocess.run starts mpirun -np num_workers.
Launch ==
    /\ cPc = "calling"
    /\ wPc = "idle"
    /\ mpi_enabled
    /\ wPc' = "running"
    /\ elapsed' = 0
    /\ exitcode' = "running"
    /\ ranks' = [r \in Ranks |-> [pc |-> "init", result |-> NoneDict]]
    /\ UNCHANGED <<mpi_enabled, rDuration, num_workers, wRet, wWhy,
                   chunks, aggregate, result_file, sRet, cPc, cJob>>
    /\ UNCHANGED <<planVars, jmVars, mergeVars, unitVars, cacheVars, sharedVars, raceVars>>

\* Something inside the try block raises (the copy into the workspace, the
\* start of mpirun, the read of the result file): `except Exception`.
UnexpectedException ==
    /\ cPc = "calling"
    /\ mpi_enabled
    /\ wPc = "idle" \/ (wPc = "running" /\ exitcode = "exit0")
    /\ ReturnNone("MPI processing error")
    /\ UNCHANGED <<mpi_enabled, rDuration, num_workers, elapsed, exitcode, ranks,
                   chunks, aggregate, result_file, sRet, cPc, cJob>>
    /\ UNCHANGED <<planVars, jmVars, mergeVars, unitVars, cacheVars, sharedVars, raceVars>>

\* subprocess.run gives up after timeout=600 and kills mpirun.
Timeout ==
    /\ RunAlive
    /\ elapsed >= PhaseTimeout
    /\ exitcode' = "killed"
    /\ ReturnNone("MPI processing timed out")
    /\ UNCHANGED <<mpi_enabled, rDuration, num_workers, elapsed, ranks,
                   chunks, aggregate, result_file, sRet, cPc, cJob>>
    /\ UNCHANGED <<planVars, jmVars, mergeVars, unitVars, cacheVars, sharedVars, raceVars>>

\* mpirun has exited: the return code is checked, then the result file read.
RunReturned ==
    /\ wPc = "running"
    /\ exitcode \in {"exit0", "exit1"}
    /\ IF exitcode # "exit0"
       THEN ReturnNone("MPI processing failed")
       ELSE IF result_file # NoResult
            THEN Return(json_loads(result_file), "MPI processing completed")
            ELSE ReturnNone("MPI result file not found")
    /\ UNCHANGED <<mpi_enabled, rDuration, num_workers, elapsed, exitcode, ranks,
                   chunks, aggregate, result_file, sRet, cPc, cJob>>
    /\ UNCHANGED <<planVars, jmVars, mergeVars, unitVars, cacheVars, sharedVars, raceVars>>

\* ----------------------------------------------------------- should_use_mpi
\* `return duration > 60`
LongEnoughInclusive(duration) == duration >= MpiThreshold * Second

LongEnough(duration) == duration > MpiThreshold * Second

\* should_use_mpi; readable says whether the clip's duration could be read.
should_use_mpi(duration, readable) ==
    IF ~mpi_enabled THEN FALSE
    ELSE IF readable THEN LongEnough(duration)
    ELSE FALSE

ShouldUseMpi ==
    /\ ~sRet.called
    /\ \E readable \in BOOLEAN :
          sRet' = [called |-> TRUE, readable |-> readable,
                   ret |-> should_use_mpi(rDuration, readable)]
    /\ UNCHANGED <<mpi_enabled, rDuration, num_workers, wPc, wRet, wWhy, elapsed,
                   exitcode, ranks, chunks, aggregate, result_file, cPc, cJob>>
    /\ UNCHANGED <<planVars, jmVars, mergeVars, unitVars, cacheVars, sharedVars, raceVars>>

\* ------------------------------------------- the submitter of the job
\* The code that creates the job, calls process_video_parallel and records
\* the outcome is not part of the sources; it is modelled on the
\* specification (4.3 side effects, 4.5, 7): one terminal update, failed with
\* an error string whenever the coordinator produced no result.
Submit ==
    /\ cPc = "new"
    /\ \E j \in JobIds :
          /\ FreshId(j)
          /\ create_job(j, "a.mp4", "id", FALSE)
          /\ cJob' = j
    /\ cPc' = "submitted"
    /\ now' = now + 1
    /\ UNCHANGED calls
    /\ UNCHANGED <<mpi_enabled, rDuration, num_workers, wPc, wRet, wWhy, elapsed,
                   exitcode, ranks, chunks, aggregate, result_file, sRet>>
    /\ UNCHANGED <<planVars, mergeVars, unitVars, cacheVars, sharedVars, raceVars>>

StartJob ==
    /\ cPc = "submitted"
    /\ update_job(cJob, PROCESSING, 0, "m1", NoResult, None, FALSE, FALSE)
    /\ cPc' = "calling"
    /\ now' = now + 1
    /\ UNCHANGED calls
    /\ UNCHANGED <<mpi_enabled, rDuration, num_workers, wPc, wRet, wWhy, elapsed,
                   exitcode, ranks, chunks, aggregate, result_file, sRet, cJob>>
    /\ UNCHANGED <<planVars, mergeVars, unitVars, cacheVars, sharedVars, raceVars>>

\* The error string the submitter can give: all it has is the None it got.
FailureText == "MPI processing failed"

FinishJob ==
    /\ cPc = "calling"
    /\ wPc = "returned"
    /\ IF wRet = NoResult
       THEN update_job(cJob, FAILED, NoProgress, None, NoResult, FailureText,
                       FALSE, FALSE)
       ELSE update_job(cJob, COMPLETED, 100, "m1", wRet, None, FALSE, FALSE)
    /\ cPc' = "done"
    /\ now' = now + 1
    /\ UNCHANGED calls
    /\ UNCHANGED <<mpi_enabled, rDuration, num_workers, wPc, wRet, wWhy, elapsed,
                   exitcode, ranks, chunks, aggregate, result_file, sRet, cJob>>
    /\ UNCHANGED <<planVars, mergeVars, unitVars, cacheVars, sharedVars, raceVars>>

\* ------------------------------------------------------ run specification
\* Asset durations on both sides of the should_use_mpi threshold.
RunDurations == {59 * Second, 60 * Second, 61 * Second}

RunInit ==
    /\ mpi_enabled \in BOOLEAN
    /\ rDuration \in RunDurations
    /\ num_workers \in 1 .. MaxWorkers
    /\ wPc = "idle"
    /\ wRet = NoResult
    /\ wWhy = None
    /\ elapsed = 0
    /\ exitcode = "running"
    /\ ranks = << >>
    /\ chunks = << >>
    /\ aggregate = NoResult
    /\ result_file = NoResult
    /\ sRet = [called |-> FALSE]
    /\ cPc = "new"
    /\ cJob = None
    /\ use_redis \in BOOLEAN
    /\ redis_flaky = FALSE
    /\ JmInitStore
    /\ PlanIdle
    /\ MergeIdle
    /\ UnitIdle
    /\ CacheIdle
    /\ SharedIdle
    /\ RaceIdle

RunNext ==
    \/ Submit
    \/ StartJob
    \/ ShouldUseMpi
    \/ ReturnMpiUnavailable
    \/ Launch
    \/ UnexpectedException
    \/ MasterScatter
    \/ \E r \in Ranks : ProcessChunk(r)
    \/ \E r \in Ranks : ProcessChunkRaises(r)
    \/ MasterAggregate
    \/ RunExits
    \/ RunAborts
    \/ RemoveResultFile
    \/ Tick
    \/ Timeout
    \/ RunReturned
    \/ FinishJob

SpecRun == RunInit /\ [][RunNext]_vars

\* The scheduling the deployment gives: time passes, subprocess.run returns
\* when its child has exited or its timeout has expired, and the submitter
\* goes on once process_video_parallel has returned.
RunFairness ==
    /\ WF_vars(Tick)
    /\ WF_vars(Timeout)
    /\ WF_vars(RunReturned)
    /\ WF_vars(FinishJob)

SpecRunFair == RunInit /\ [][RunNext]_vars /\ RunFairness

\* ---------------------------------------------------------- run: claims
\* The submitter's job record.
Job == Stored(cJob)

Responded == {r \in DOMAIN ranks : ranks[r].result # NoneDict}

FailedRanks == {r \in DOMAIN ranks : ranks[r].pc = "raised"}

\* An error string that names chunk c.
ChunkFailureText(c) ==
    <<"chunk 0 failed", "chunk 1 failed", "chunk 2 failed", "chunk 3 failed",
      "chunk 4 failed">>[c + 1]

\* C3 as stated: if one chunk of a phase fails in its unit executor while the
\* others succeed, the job ends failed, its error identifies the failing
\* chunk, and no aggregate result is published.
C3_FailedChunkIdentified ==
    (/\ cPc = "done"
     /\ Cardinality(FailedRanks) = 1
     /\ Responded \cup FailedRanks = DOMAIN ranks)
    => /\ Job.status = FAILED
       /\ \E c \in FailedRanks : Job.error = ChunkFailureText(c)
       /\ Job.result = NoResult
       /\ wRet = NoResult

TimedOut == wWhy = "MPI processing timed out"

\* C4: the aggregate is built only after all n participants have returned
\* their unit result at the gather, and from exactly those results; if the
\* phase timeout (600 s) elapses before that, the call ends without a result
\* and nothing has been aggregated or saved from those that did respond.
C4_AggregateNeedsAllResults ==
    /\ aggregate # NoResult =>
          /\ Responded = Ranks
          /\ aggregate = Aggregate([k \in 1 .. num_workers |-> ranks[k - 1].result],
                                   num_workers)
    /\ TimedOut => (elapsed >= PhaseTimeout /\ wRet = NoResult)
    /\ (TimedOut /\ Responded # Ranks) =>
          (aggregate = NoResult /\ result_file = NoResult)

\* C4 witness: the timeout struck with two of three participants returned.
C4_Witness ==
    /\ TimedOut
    /\ num_workers = 3
    /\ Cardinality(Responded) = 2
    /\ wPc = "returned"

\* The branches of process_video_parallel taken on a fatal condition.
FatalOutcome ==
    wWhy \in {"MPI processing failed", "MPI result file not found",
              "MPI processing timed out", "MPI processing error"}

JobFailedWithError ==
    /\ cJob # None
    /\ Job # NoJob
    /\ Job.status = FAILED
    /\ Job.error \notin {None, ""}

TimeoutText == "MPI processing timed out"

\* C16 as stated: when the gather exceeds the phase timeout the job is failed
\* with a timeout-specific error, and a phase that ended because a unit failed
\* without the timeout expiring is never reported with the timeout error.
C16_TimeoutDistinguished ==
    cPc = "done" =>
        /\ TimedOut => (Job.status = FAILED /\ Job.error = TimeoutText)
        /\ (FatalOutcome /\ ~TimedOut) =>
               (Job.status = FAILED /\ Job.error # TimeoutText)

\* C6 as stated: with the distributed backend unavailable the coordinator
\* does not fail: it returns an aggregate for a single chunk, worker_count 1.
C6_FallbackSingleChunk ==
    (wPc = "returned" /\ ~mpi_enabled) =>
        (wRet # NoResult /\ wRet.workers_used = 1)

\* C7 as stated: should_use_mpi returns true exactly when the backend is
\* available and the duration is not below 60 seconds.
C7_MpiIffNotBelowThreshold ==
    sRet.called =>
        (sRet.ret <=> (mpi_enabled /\ rDuration >= MpiThreshold * Second))

\* C7 amended: should_use_mpi returns true exactly when the backend is
\* available, the duration can be read and it is greater than 60 seconds; in
\* every other case (60 s exactly included) single-node execution is selected.
C7_MpiIffAboveThreshold ==
    sRet.called =>
        (sRet.ret <=>
            (mpi_enabled /\ sRet.readable /\ rDuration > MpiThreshold * Second))

\* C7 witness: an available backend and an asset of exactly 60 seconds.
C7_Witness ==
    /\ sRet.called
    /\ mpi_enabled
    /\ sRet.readable
    /\ rDuration = MpiThreshold * Second
    /\ sRet.ret = FALSE

\* ----------------------------------------- unit executor specification
\* Two distributed runs (of two jobs) alive at the same time on the cluster;
\* every rank of every run works in the one directory /mpi/workspace.
Runs == {"runA", "runB"}

UnitRanks == {0, 1}

TargetLanguages == {None, "id"}

\* The chunk the scatter hands rank r: chunk r of the master's plan.
ScatteredChunk(r) ==
    split_video_into_chunks(128 * Second, Cardinality(UnitRanks)).chunks[r + 1]

\* workspace / f"chunk_{chunk_id}_rank_{self.rank}.wav"
audio_chunk_path(chunk_id, rank) == [chunk_id |-> chunk_id, rank |-> rank]

PathOf(e) == audio_chunk_path(unit[e].chunk.chunk_id, unit[e].rank)

\* Path.exists()
Exists(path) == \E f \in workspace : f.path = path

\* ffmpeg -y writes the file, replacing what was there.
Written(path, e) == {f \in workspace : f.path # path} \cup {[path |-> path, by |-> e]}

\* Path.unlink()
Unlinked(path) == {f \in workspace : f.path # path}

UnitInit ==
    /\ unit \in [Runs -> { [rank |-> r, chunk |-> ScatteredChunk(r),
                            target_language |-> l, pc |-> "start",
                            segments |-> << >>, failed |-> {},
                            fault |-> None, ret |-> NoneDict] :
                           r \in UnitRanks, l \in TargetLanguages }]
    /\ workspace = {}
    /\ PlanIdle
    /\ JmIdle
    /\ RunIdle
    /\ MergeIdle
    /\ CacheIdle
    /\ SharedIdle
    /\ RaceIdle

UnitStep(e, pc, fault) == unit' = [unit EXCEPT ![e].pc = pc, ![e].fault = fault]

\* subprocess.run(ffmpeg ..., check=True) succeeds: the audio file is there.
Extract(e) ==
    /\ unit[e].pc = "start"
    /\ UnitStep(e, "extracted", None)
    /\ workspace' = Written(PathOf(e), e)

\* ffmpeg exits non-zero: CalledProcessError leaves process_chunk.  ffmpeg
\* may or may not have left (part of) its output file behind.
ExtractRaises(e) ==
    /\ unit[e].pc = "start"
    /\ UnitStep(e, "raised", "extraction")
    /\ \/ workspace' = Written(PathOf(e), e)
       \/ UNCHANGED workspace

\* transcribe and the loop over its segments: each segment is stripped,
\* translated if a target language is set (the translation of the segments in
\* failed raises and is caught), and appended.
TranscribeAndTranslate(e) ==
    /\ unit[e].pc = "extracted"
    /\ Exists(PathOf(e))
    /\ \E segments \in Transcripts :
       \E failed \in SUBSET (1 .. Len(segments)) :
          /\ Truthy(unit[e].target_language) \/ failed = {}
          /\ unit' = [unit EXCEPT ![e].pc = "looped",
                                  ![e].segments = segments,
                                  ![e].failed = failed]
    /\ UNCHANGED workspace

\* whisper_model.transcribe (or the iteration of its segments) raises: the
\* exception leaves process_chunk before the cleanup.
TranscribeRaises(e) ==
    /\ unit[e].pc = "extracted"
    /\ UnitStep(e, "raised", "transcription")
    /\ UNCHANGED workspace

\* The unit result process_chunk returns.
UnitReturn(e) ==
    [unit EXCEPT ![e].pc = "returned",
                 ![e].ret = process_chunk(unit[e].chunk, unit[e].segments,
                                          unit[e].target_language, unit[e].failed)]

\* if audio_chunk_path.exists(): ... (no file: process_chunk returns)
CheckExists(e) ==
    /\ unit[e].pc = "looped"
    /\ unit' = IF Exists(PathOf(e)) THEN [unit EXCEPT ![e].pc = "unlinking"]
               ELSE UnitReturn(e)
    /\ UNCHANGED workspace

\* audio_chunk_path.unlink(), then return; FileNotFoundError if the file has
\* gone since the exists() test.
Unlink(e) ==
    /\ unit[e].pc = "unlinking"
    /\ IF Exists(PathOf(e))
       THEN unit' = UnitReturn(e) /\ workspace' = Unlinked(PathOf(e))
       ELSE UnitStep(e, "raised", "unlink") /\ UNCHANGED workspace

UnitNext ==
    \E e \in Runs :
        /\ \/ Extract(e)
           \/ ExtractRaises(e)
           \/ TranscribeAndTranslate(e)
           \/ TranscribeRaises(e)
           \/ CheckExists(e)
           \/ Unlink(e)
        /\ UNCHANGED <<planVars, jmVars, runVars, mergeVars, cacheVars, sharedVars, raceVars>>

SpecUnit == UnitInit /\ [][UnitNext]_vars

Ended(e) == unit[e].pc \in {"returned", "raised"}

\* C13 as stated: when the audio extraction or the transcription fails for a
\* chunk, process_chunk does not raise: it returns a unit result for that
\* chunk_id with status failed and an error string.
C13_FailureReturnedAsResult ==
    \A e \in DOMAIN unit :
        unit[e].fault \in {"extraction", "transcription"} =>
            /\ unit[e].pc = "returned"
            /\ unit[e].ret # NoneDict
            /\ unit[e].ret.chunk_id = unit[e].chunk.chunk_id
            /\ "status" \in DOMAIN unit[e].ret
            /\ unit[e].ret.status = "failed"
            /\ "error" \in DOMAIN unit[e].ret

\* C14 as stated: on every exit path of process_chunk the temporary audio
\* file it created for the chunk no longer exists when the call ends.
C14_TempFileGoneAtExit ==
    \A e \in DOMAIN unit :
        Ended(e) => [path |-> PathOf(e), by |-> e] \notin workspace

\* Between the computation of its path and its end a call uses the path.
UsesPath(e) == unit[e].pc \in {"extracted", "looped", "unlinking"}

\* C15 as stated: no two unit executions that run at the same time use the
\* same temporary workspace path, executions of the same chunk_id on the same
\* rank in two different concurrent jobs included.
C15_ConcurrentPathsDistinct ==
    \A e1, e2 \in DOMAIN unit :
        (e1 # e2 /\ UsesPath(e1) /\ UsesPath(e2)) => PathOf(e1) # PathOf(e2)

\* C20: when the translation of a segment fails inside process_chunk the unit
\* still completes: that segment is kept with translated_text set to its
\* (untranslated) text, the other segments are processed as usual, and no
\* segment is dropped.
C20_TranslationFailureKeepsSegment ==
    \A e \in DOMAIN unit :
        /\ unit[e].fault # "translation"
        /\ unit[e].pc = "returned" =>
              LET out == unit[e].ret.transcriptions
                  segments == unit[e].segments
              IN  /\ Len(out) = Len(segments)
                  /\ \A k \in DOMAIN segments :
                        /\ out[k].text = Strip(segments[k].text)
                        /\ k \in unit[e].failed =>
                              out[k].translated_text = out[k].text
                        /\ (k \notin unit[e].failed
                              /\ Truthy(unit[e].target_language)) =>
                              out[k].translated_text =
                                  Translate(out[k].text, unit[e].target_language)

\* C20 witness: a returned unit of two segments, the translation of the
\* second of which failed.
C20_Witness ==
    \E e \in DOMAIN unit :
        /\ unit[e].pc = "returned"
        /\ Len(unit[e].segments) = 2
        /\ unit[e].failed = {2}
        /\ unit[e].ret.transcriptions[2].translated_text = "b"
        /\ unit[e].ret.transcriptions[1].translated_text = "A"

\* C21: every segment of a unit result carries absolute asset time: its start
\* and end are the chunk-local start and end produced by transcription plus
\* the chunk's start (Python's float +), so that start <= end still holds and
\* the segments stay in the order transcription produced them.
C21_SegmentsRebased ==
    \A e \in DOMAIN unit :
        unit[e].pc = "returned" =>
            LET out == unit[e].ret.transcriptions
                segments == unit[e].segments
                start_time == unit[e].chunk.start_time
            IN  /\ DOMAIN out = DOMAIN segments
                /\ \A k \in DOMAIN segments :
                      /\ out[k].start = FAdd(segments[k].start, start_time)
                      /\ out[k].end = FAdd(segments[k].end, start_time)
                      /\ out[k].start >= start_time
                      /\ out[k].start <= out[k].end
                      /\ out[k].text = Strip(segments[k].text)
                /\ \A i, j \in DOMAIN out : i < j => out[i].start <= out[j].start

\* C21 witness: a unit of two segments in a chunk that does not start at 0,
\* where the sum for the second segment was rounded.
C21_Witness ==
    \E e \in DOMAIN unit :
        /\ unit[e].pc = "returned"
        /\ unit[e].chunk.start_time > 0
        /\ Len(unit[e].segments) = 2
        /\ unit[e].ret.transcriptions[2].start
               # unit[e].segments[2].start + unit[e].chunk.start_time

\* C25 as stated: create_job never raises and always returns a job_id whose
\* record is returned by an immediately following get_job, also when the
\* manager connected to Redis at start-up and the Redis write fails.
C25_CreateNeverRaises ==
    [][(calls' = calls + 1 /\ jmOp'.op = "create_job")
       => (/\ ~jmOp'.raised
           /\ jmOp'.ret = jmOp'.job_id
           /\ StoredAfter(jmOp'.job_id) # NoJob)]_vars

\* ---------------------------------- job manager: overlapping updates
\* Two update_job calls on the same job from two threads or two worker
\* processes of the backend; each is a read (get_job) and later a write.
Updaters == {"u1", "u2"}

RaceJob == "j1"

NoArgs == UpdateArgs(None, NoProgress, None, NoResult, None)

RaceInit ==
    /\ use_redis \in BOOLEAN
    /\ redis_flaky = FALSE
    /\ now = 0
    /\ issued = {RaceJob}
    /\ jmOp = [op |-> "create_job", job_id |-> RaceJob, ret |-> RaceJob,
               raised |-> FALSE]
    /\ calls = 1
    /\ IF use_redis
       THEN /\ redis = Setex(<< >>, RaceJob, job_ttl,
                             json_dumps(NewJob(RaceJob, "a.mp4", "en")))
            /\ jobs = << >>
       ELSE /\ jobs = DictPut(<< >>, RaceJob, NewJob(RaceJob, "a.mp4", "en"))
            /\ redis = << >>
    /\ upd = [u \in Updaters |-> [pc |-> "idle", args |-> NoArgs,
                                   job |-> NoJob, ret |-> FALSE]]
    /\ PlanIdle
    /\ RunIdle
    /\ MergeIdle
    /\ UnitIdle
    /\ CacheIdle
    /\ SharedIdle

\* update_job, first half: job = self.get_job(job_id).  With Redis the
\* value is a fresh dict parsed from the stored text; in memory it is the
\* stored dict itself.
ReadJob ==
    \E u \in Updaters :
        /\ upd[u].pc = "idle"
        /\ \E a \in FrameArgs :
              LET job == get_job_value(RaceJob, FALSE)
              IN  upd' = [upd EXCEPT ![u].pc = IF job = NoJob THEN "returned" ELSE "read",
                                     ![u].args = a,
                                     ![u].job = job,
                                     ![u].ret = FALSE]
        /\ UNCHANGED <<redis, jobs, use_redis, redis_flaky, now, issued, jmOp, calls, planVars, runVars, mergeVars, unitVars, cacheVars, sharedVars>>

\* update_job, second half: the fields are assigned on the dict read before
\* and the dict is written back under the job's key.
WriteJob ==
    \E u \in Updaters :
        /\ upd[u].pc = "read"
        /\ LET a == upd[u].args
               job == IF use_redis THEN upd[u].job ELSE DictGet(jobs, RaceJob)
               new == ApplyUpdate(job, a.status, a.progress, a.message, a.result, a.error)
           IN  IF use_redis
               THEN /\ redis' = Setex(redis, RaceJob, job_ttl, json_dumps(new))
                    /\ UNCHANGED jobs
               ELSE /\ jobs' = DictPut(jobs, RaceJob, new)
                    /\ UNCHANGED redis
        /\ upd' = [upd EXCEPT ![u].pc = "returned", ![u].ret = TRUE]
        /\ UNCHANGED <<use_redis, redis_flaky, now, issued, jmOp, calls, planVars, runVars, mergeVars, unitVars, cacheVars, sharedVars>>

RaceNext ==
    \/ ReadJob
    \/ WriteJob

SpecRace == RaceInit /\ [][RaceNext]_vars

\* The fields an update_job call assigns.
Supplied(a) ==
    {f \in {"status", "message", "error"} : Truthy(a[f])}
        \cup (IF a.progress # NoProgress THEN {"progress"} ELSE {})
        \cup (IF TruthyDict(a.result) THEN {"result"} ELSE {})

\* C24 as stated: if two update_job calls on the same job overlap and set
\* different fields, then once both have returned True the stored record
\* holds both new values.
C24_NoLostUpdate ==
    \A u, v \in DOMAIN upd :
        (/\ u # v
         /\ upd[u].pc = "returned" /\ upd[u].ret
         /\ upd[v].pc = "returned" /\ upd[v].ret
         /\ Supplied(upd[u].args) \cap Supplied(upd[v].args) = {})
        => \A f \in Supplied(upd[u].args) : Stored(RaceJob)[f] = upd[u].args[f]

\* ------------------------------------- shared workspace specification
\* Two callers of process_video_parallel (two requests of the backend), at the
\* same time or one after the other; MPI is available.
Callers == {"c1", "c2"}

\* The assets: two different videos named a.mp4 in two directories, another
\* one, and one that already lies in the workspace.
Assets == {"/videos/x/a.mp4", "/videos/y/a.mp4", "/videos/b.mp4",
           "/mpi/workspace/c.mp4"}

\* Path(video_path).name
FileName(video_path) ==
    CASE video_path = "/videos/x/a.mp4" -> "a.mp4"
      [] video_path = "/videos/y/a.mp4" -> "a.mp4"
      [] video_path = "/videos/b.mp4" -> "b.mp4"
      [] OTHER -> "c.mp4"

\* str(video_path).startswith(str(self.workspace))
InWorkspace(video_path) == video_path = "/mpi/workspace/c.mp4"

\* What a file holds is named after the asset it was made from.
ContentOf(video_path) == [content_of |-> video_path]

\* The copy is made whether or not the workspace holds a file of that name.
CopiedAlways(video_path) ==
    DictPut(ws_videos, FileName(video_path), ContentOf(video_path))

\* Copy video to shared workspace if not already there.
Copied(video_path) ==
    IF InWorkspace(video_path) \/ FileName(video_path) \in DOMAIN ws_videos
    THEN ws_videos
    ELSE DictPut(ws_videos, FileName(video_path), ContentOf(video_path))

SharedInit ==
    /\ call = [c \in Callers |-> [pc |-> "idle", video_path |-> None,
                                   after |-> {}, ret |-> NoResult]]
    /\ ws_videos = DictPut(<< >>, "c.mp4", ContentOf("/mpi/workspace/c.mp4"))
    /\ ws_result = NoResult
    /\ PlanIdle
    /\ JmIdle
    /\ RunIdle
    /\ MergeIdle
    /\ UnitIdle
    /\ CacheIdle
    /\ RaceIdle

\* process_video_parallel(video_path) up to the launch of mpirun: the video
\* is copied into the workspace unless a file of its name is there.  after
\* keeps which calls had returned before this one began.
Prepare ==
    \E c \in Callers, video_path \in Assets :
          /\ call[c].pc = "idle"
          /\ call' = [call EXCEPT ![c].pc = "launched",
                                  ![c].video_path = video_path,
                                  ![c].after = {d \in Callers : call[d].pc = "returned"}]
          /\ ws_videos' = Copied(video_path)
          /\ UNCHANGED <<ws_result, planVars, jmVars, runVars, mergeVars, unitVars, cacheVars, raceVars>>

\* The distributed run of the call processes the workspace file it was given
\* on the command line, and main() saves the aggregate to mpi_result.json.
RunSaves ==
    \E c \in Callers :
        /\ call[c].pc = "launched"
        /\ call' = [call EXCEPT ![c].pc = "exited0"]
        /\ ws_result' = json_dumps([made_by |-> c,
                                    made_of |-> ws_videos[FileName(call[c].video_path)]])
        /\ UNCHANGED <<ws_videos, planVars, jmVars, runVars, mergeVars, unitVars, cacheVars, raceVars>>

\* The distributed run exits with a non-zero status: return None.
RunFails ==
    \E c \in Callers :
        /\ call[c].pc = "launched"
        /\ call' = [call EXCEPT ![c].pc = "returned", ![c].ret = NoResult]
        /\ UNCHANGED <<ws_videos, ws_result, planVars, jmVars, runVars, mergeVars, unitVars, cacheVars, raceVars>>

\* returncode 0: the result file is read and returned.
ReadResult ==
    \E c \in Callers :
        /\ call[c].pc = "exited0"
        /\ call' = [call EXCEPT ![c].pc = "returned",
                                ![c].ret = IF ws_result # NoResult
                                           THEN json_loads(ws_result)
                                           ELSE NoResult]
        /\ UNCHANGED <<ws_videos, ws_result, planVars, jmVars, runVars, mergeVars, unitVars, cacheVars, raceVars>>

SharedNext ==
    \/ Prepare
    \/ RunSaves
    \/ RunFails
    \/ ReadResult

SpecShared == SharedInit /\ [][SharedNext]_vars

Got(c) == call[c].pc = "returned" /\ call[c].ret # NoResult

\* Neither call began after the other had returned.
Concurrent == \A c \in DOMAIN call : call[c].after = {}

\* C23 as stated: when two process_video_parallel calls for different assets
\* run concurrently, each call returns the aggregate produced by its own
\* distributed run and never the one written by the other run.
C23_OwnAggregateReturned ==
    \A c, d \in DOMAIN call :
        (/\ c # d
         /\ Concurrent
         /\ Got(c)
         /\ call[d].video_path # None
         /\ call[d].video_path # call[c].video_path)
        => call[c].ret.made_by = c

\* C26 as stated: a run on an asset that begins after a run on a different
\* asset of the same file name has ended is not handed the earlier asset's
\* copy left in the workspace: it processes the content of its own asset.
C26_OwnAssetProcessed ==
    \A c \in DOMAIN call :
        (/\ Got(c)
         /\ call[c].after # {}
         /\ call[c].ret.made_by = c)
        => call[c].ret.made_of = ContentOf(call[c].video_path)

\* -------------------------------------------------- cache specification
DefaultTtl == 3600

VideoPaths == {"/videos/a.mp4", "/videos/b.mp4"}

\* ttl arguments: 0 stands for the falsy ones (None, 0).
TtlArgs == {0, 60}

\* _generate_key: the md5 of f"{video_path}:{target_language or 'original'}"
_generate_key(video_path, target_language) ==
    [video_path |-> video_path,
     language   |-> IF Truthy(target_language) THEN target_language ELSE "original"]

\* __init__: the ping succeeded, or ConnectionError left the cache without client.
CacheInit ==
    /\ cache_client \in BOOLEAN
    /\ cache_store = << >>
    /\ cacheOp = [op |-> "init"]
    /\ cacheCalls = 0
    /\ PlanIdle
    /\ JmIdle
    /\ RunIdle
    /\ MergeIdle
    /\ UnitIdle
    /\ SharedIdle
    /\ RaceIdle

\* The call returns ret to its caller; outage tells whether it ran without
\* client or a Redis command raised during it.
CacheReturns(op, ret, outage) ==
    cacheOp' = [op |-> op, ret |-> ret, outage |-> outage, raised |-> FALSE]

\* The exception of the Redis command leaves the call.
CacheExceptReraise(op) ==
    cacheOp' = [op |-> op, ret |-> NoneDict, outage |-> TRUE, raised |-> TRUE]

\* except Exception as e: print(...) (and return None)
CacheExcept(op) == CacheReturns(op, NoneDict, TRUE)

\* RedisCache.get
cache_get(video_path, target_language, cmdRaises) ==
    /\ IF ~cache_client
       THEN CacheReturns("get", NoneDict, TRUE)
       ELSE IF cmdRaises
       THEN CacheExcept("get")
       ELSE LET key == _generate_key(video_path, target_language)
            IN  IF key \in DOMAIN cache_store
                THEN CacheReturns("get", json_loads(cache_store[key].data), FALSE)
                ELSE CacheReturns("get", NoneDict, FALSE)
    /\ UNCHANGED <<cache_client, cache_store>>

\* RedisCache.set
cache_set(video_path, result, target_language, ttl, cmdRaises) ==
    /\ UNCHANGED cache_client
    /\ IF ~cache_client
       THEN CacheReturns("set", NoneDict, TRUE) /\ UNCHANGED cache_store
       ELSE IF cmdRaises
       THEN CacheExcept("set") /\ UNCHANGED cache_store
       ELSE LET key == _generate_key(video_path, target_language)
                t == IF ttl # 0 THEN ttl ELSE DefaultTtl
            IN  /\ cache_store' = DictPut(cache_store, key,
                                          [data |-> json_dumps(result), ttl |-> t])
                /\ CacheReturns("set", NoneDict, FALSE)

CacheCalled == cacheCalls < MaxCalls /\ cacheCalls' = cacheCalls + 1

CacheGet ==
    \E video_path \in VideoPaths, target_language \in TargetLanguages,
       cmdRaises \in BOOLEAN :
        /\ CacheCalled
        /\ cache_get(video_path, target_language, cmdRaises)
        /\ UNCHANGED <<planVars, jmVars, runVars, mergeVars, unitVars, sharedVars, raceVars>>

CacheSet ==
    \E video_path \in VideoPaths, target_language \in TargetLanguages,
       result \in {EmptyDict, R1}, ttl \in TtlArgs, cmdRaises \in BOOLEAN :
        /\ CacheCalled
        /\ cache_set(video_path, result, target_language, ttl, cmdRaises)
        /\ UNCHANGED <<planVars, jmVars, runVars, mergeVars, unitVars, sharedVars, raceVars>>

CacheNext == CacheGet \/ CacheSet

SpecCache == CacheInit /\ [][CacheNext]_vars

MergeUnits == 2
MaxSegs == 2

\* Absolute start times a segment can carry: equal across chunks (a tie) or
\* later in a lower chunk than in a higher one.
SegStarts == {0, Second}

\* The text of the k-th segment of chunk c: tells the segments apart.
SegText(c, k) ==
    << <<"a1", "a2", "a3", "a4">>, <<"b1", "b2", "b3", "b4">>,
       <<"c1", "c2", "c3", "c4">>, <<"d1", "d2", "d3", "d4">> >>[c + 1][k]

\* The unit results process_chunk can return for chunk c.
UnitResults(c) ==
    { [chunk_id       |-> c,
       transcriptions |-> [k \in DOMAIN st |->
                              [start |-> st[k], end |-> st[k] + 1,
                               text |-> SegText(c, k), translated_text |-> None]],
       language       |-> "en"] :
      st \in UNION {[1 .. n -> SegStarts] : n \in 0 .. MaxSegs} }

\* The lists a gather of n units can be handed over in: the results of chunks
\* 0 .. n-1, one each, in any order.
Arrivals ==
    UNION { { s \in [1 .. n -> UNION {UnitResults(c) : c \in 0 .. n - 1}] :
                \A i, j \in 1 .. n : s[i].chunk_id = s[j].chunk_id => i = j } :
            n \in 1 .. MergeUnits }

MergeInit ==
    /\ arrived \in Arrivals
    /\ all_results = arrived
    /\ mCalls = 0
    /\ merged = NoResult
    /\ PlanIdle
    /\ JmIdle
    /\ RunIdle
    /\ UnitIdle
    /\ CacheIdle
    /\ SharedIdle
    /\ RaceIdle

\* The aggregation of parallel_process_video runs on the list, a first and a
\* second time; the list is left sorted by chunk_id (list.sort works in place).
Merge ==
    /\ mCalls \in {0, 1}
    /\ mCalls' = mCalls + 1
    /\ all_results' = SortByChunkId(all_results)
    /\ merged' = Aggregate(all_results, Len(all_results))
    /\ UNCHANGED arrived
    /\ UNCHANGED <<planVars, jmVars, runVars, unitVars, cacheVars, sharedVars, raceVars>>

MergeNext == Merge

SpecMerge == MergeInit /\ [][MergeNext]_vars

RECURSIVE SumLens(_)
SumLens(results) ==
    IF results = << >> THEN 0
    ELSE Len(results[1].transcriptions) + SumLens(Tail(results))

Count(seq, x) == Cardinality({i \in DOMAIN seq : seq[i] = x})

RECURSIVE SumCounts(_, _)
SumCounts(results, x) ==
    IF results = << >> THEN 0
    ELSE Count(results[1].transcriptions, x) + SumCounts(Tail(results), x)

SegmentsOf(results) ==
    UNION {{results[i].transcriptions[k] : k \in DOMAIN results[i].transcriptions} :
           i \in DOMAIN results}

\* C11: the aggregated segment sequence is sorted by start non-decreasing, its
\* length is the sum of the segment counts of all unit results, it contains
\* exactly the input segments (none dropped, none duplicated), and
\* total_segments equals that length.
C11_MergedSortedAndComplete ==
    mCalls > 0 =>
        LET out == merged.transcriptions
        IN  /\ \A i, j \in DOMAIN out : i < j => out[i].start <= out[j].start
            /\ Len(out) = SumLens(arrived)
            /\ \A x \in SegmentsOf(arrived) \cup {out[i] : i \in DOMAIN out} :
                   Count(out, x) = SumCounts(arrived, x)
            /\ merged.total_segments = Len(out)

\* C11 witness: three segments were merged whose order on arrival was not
\* the order of their starts.
C11_Witness ==
    /\ mCalls > 0
    /\ Len(merged.transcriptions) >= 3
    /\ Extend(arrived) # merged.transcriptions

\* Where a segment came from: its chunk and its position in the unit result.
Origin(x) ==
    CHOOSE o \in (0 .. MergeUnits) \X (1 .. MaxSegs + 1) :
        \E i \in DOMAIN arrived :
            /\ arrived[i].chunk_id = o[1]
            /\ o[2] \in DOMAIN arrived[i].transcriptions
            /\ arrived[i].transcriptions[o[2]] = x

\* The orders the list arrived can be handed over in.
ArrivalOrders(s) ==
    { [i \in DOMAIN s |-> s[p[i]]] :
        p \in {q \in [DOMAIN s -> DOMAIN s] :
                  \A i, j \in DOMAIN s : q[i] = q[j] => i = j} }

\* C12: the aggregate depends only on the set of unit results, not on the
\* order they arrive in: any permutation of the same results, and a second
\* merge, give the identical segment sequence, in which segments of equal start
\* are ordered by ascending chunk_id and by original position within a chunk.
C12_MergeIgnoresArrivalOrder ==
    mCalls > 0 =>
        LET out == merged.transcriptions
        IN  /\ \A s \in ArrivalOrders(arrived) : Aggregate(s, Len(s)) = merged
            /\ merged = Aggregate(arrived, Len(arrived))
            /\ \A i, j \in DOMAIN out :
                   (i < j /\ out[i].start = out[j].start) =>
                       \/ Origin(out[i])[1] < Origin(out[j])[1]
                       \/ /\ Origin(out[i])[1] = Origin(out[j])[1]
                          /\ Origin(out[i])[2] < Origin(out[j])[2]

\* C12 witness: merged twice, from results that arrived with the higher chunk
\* first and hold a tie between the two chunks.
C12_Witness ==
    /\ mCalls > 1
    /\ Len(arrived) >= 2
    /\ arrived[1].chunk_id > arrived[2].chunk_id
    /\ \E i, j \in DOMAIN merged.transcriptions :
           /\ i < j
           /\ merged.transcriptions[i].start = merged.transcriptions[j].start
           /\ Origin(merged.transcriptions[i])[1] # Origin(merged.transcriptions[j])[1]

\* ------------------------------------------------- planner specification
PlanDurations == PositiveDurations \cup {0, -Pow2(FloatBits - 1) * Second}

PlanCounts == -1 .. MaxChunks

PlanInit ==
    /\ pDuration \in PlanDurations
    /\ pNum \in PlanCounts
    /\ pPc = "call"
    /\ pOut = None
    /\ JmIdle
    /\ RunIdle
    /\ MergeIdle
    /\ UnitIdle
    /\ CacheIdle
    /\ SharedIdle
    /\ RaceIdle

Plan ==
    /\ pPc = "call"
    /\ pOut' = split_video_into_chunks(pDuration, pNum)
    /\ pPc' = "done"
    /\ UNCHANGED <<pDuration, pNum>>
    /\ UNCHANGED <<jmVars, runVars, mergeVars, unitVars, cacheVars, sharedVars, raceVars>>

PlanNext == Plan

SpecPlan == PlanInit /\ [][PlanNext]_vars

\* ------------------------------------------------------------ claim C1
PlanDone == pPc = "done"

ValidPlanInput == pDuration > 0 /\ pNum > 0

LastEnd == pOut.chunks[Len(pOut.chunks)].end_time

\* Everything C1 says of the chunk list except where the last chunk ends.
PartitionShape ==
    /\ pOut.fault = None
    /\ Len(pOut.chunks) = pNum
    /\ \A k \in 1 .. pNum : pOut.chunks[k].chunk_id = k - 1
    /\ pOut.chunks[1].start_time = 0
    /\ \A k \in 1 .. (pNum - 1) :
          pOut.chunks[k].end_time = pOut.chunks[k + 1].start_time
    /\ \A k \in 1 .. pNum : pOut.chunks[k].start_time <= pOut.chunks[k].end_time
    /\ \A k, l \in 1 .. pNum :
          k < l => pOut.chunks[k].end_time <= pOut.chunks[l].start_time

\* C1 as stated: for every duration > 0 and n > 0 the planner returns exactly
\* n chunks, ids 0..n-1 in order, first start 0, each end equal to the next
\* start, no overlap, and the last chunk ends exactly at duration.
C1_ExactPartition ==
    (PlanDone /\ ValidPlanInput) => (PartitionShape /\ LastEnd = pDuration)

\* C1 amended: as above, but the last chunk ends at duration only up to the
\* rounding of n * (duration / n): never after duration, and short of it by
\* less than duration * 2^-(FloatBits - 2).
C1_PartitionUpToRounding ==
    (PlanDone /\ ValidPlanInput) =>
        /\ PartitionShape
        /\ LastEnd <= pDuration
        /\ (pDuration - LastEnd) * Pow2(FloatBits - 2) < pDuration

\* C1 witness: a three-way split whose last chunk stops short of the duration.
C1_Witness ==
    /\ PlanDone /\ ValidPlanInput /\ pNum = 3
    /\ Len(pOut.chunks) = 3
    /\ LastEnd < pDuration

\* ------------------------------------------------------------ claim C8
InvalidPlanInput == pDuration <= 0 \/ pNum <= 0

\* C8 as stated: for n <= 0 or duration <= 0 the planner fails with
\* InvalidInput: it returns no chunk list and raises no other fault.
C8_InvalidInputRejected ==
    (PlanDone /\ InvalidPlanInput) =>
        (pOut.fault = "InvalidInput" /\ pOut.chunks = None)

====
